---- MODULE Spec2Model ----
(***************************************************************************)
(* update-join/data.py: record_sale(conn, customer, items) run by callers  *)
(* against a PostgreSQL store through psycopg2 connections.                *)
(*                                                                         *)
(* The store is modelled as PostgreSQL keeps it: the tables are heaps of   *)
(* row versions, each stamped with the transaction that inserted it, and a *)
(* commit log gives every transaction's fate.  A row is durable (visible   *)
(* to other sessions) exactly when its inserting transaction committed.    *)
(* A psycopg2 connection opens a transaction at its first statement and    *)
(* keeps it open until commit() or rollback() is called on the connection; *)
(* a statement that fails aborts the transaction on the server and leaves  *)
(* the connection refusing statements until rollback.                      *)
(***************************************************************************)
EXTENDS Integers, Sequences, FiniteSets, TLC

\* ---------------------------------------------------------------- bounds
MaxItems == 2
NumCalls == 2
NumConns == 2

Calls == 1..NumCalls
Conns == 1..NumConns

\* ------------------------------------------------------------ the inputs
\* The customers table read by the INSERT ... SELECT.  The source declares
\* no unique constraint on customers.name, so one name may match several
\* rows; "Zed" below matches none.
customers ==
    { [id |-> 7, name |-> "Mary"],
      [id |-> 8, name |-> "Ann"],
      [id |-> 9, name |-> "Bob"],
      [id |-> 10, name |-> "Bob"] }

CustomerNames == {"Mary", "Ann", "Bob", "Zed"}
ItemNames == {"Purple Automobile", "Yellow Automobile"}

RECURSIVE SeqsUpTo(_, _)
SeqsUpTo(S, n) ==
    IF n = 0 THEN { <<>> }
    ELSE LET shorter == SeqsUpTo(S, n - 1)
         IN  shorter \cup { Append(s, x) : s \in { t \in shorter : Len(t) = n - 1 }, x \in S }

ItemLists == SeqsUpTo(ItemNames, MaxItems)

None == "None"

\* ----------------------------------------------------------------- state
VARIABLES
    invoices,         \* heap of table invoices: <<[id, customer_id, xmin]>>
    items,            \* heap of table items: <<[name, invoice_id, xmin]>>
    invoices_id_seq,  \* last value handed out by the serial of invoices.id
    xact,             \* commit log: xact[x] is the fate of transaction x
    status,           \* status[c]: transaction status of connection c
    xid,              \* xid[c]: the open transaction of connection c, or 0
    pc,               \* pc[p]: where call p stands in record_sale
    conn,             \* conn[p], customer[p], arg_items[p]: the arguments
    customer,
    arg_items,
    cur,              \* cur[p]: the cursor of call p, [rows, closed]
    invoice_id,       \* invoice_id[p]: the local of line 23
    n_done,           \* n_done[p]: items the loop of line 27 has got through
    sent,             \* sent[p]: the statements call p passed to cur.execute
    result            \* result[p]: what the caller got, [kind, value]

vars == << invoices, items, invoices_id_seq, xact, status, xid, pc, conn,
           customer, arg_items, cur, invoice_id, n_done, sent, result >>

store == << invoices, items, invoices_id_seq, xact >>
session == << status, xid >>
args == << conn, customer, arg_items >>

\* ------------------------------------------------------------ visibility
Committed(x) == x \in DOMAIN xact /\ xact[x] = "committed"

\* ---------------------------------------------------- psycopg2 connection
\* psycopg2 sends BEGIN before the first statement of a connection whose
\* status is READY; the statement then runs in that new transaction.
TxOf(c) == IF status[c] = "READY" THEN Len(xact) + 1 ELSE xid[c]

Begun(c) == IF status[c] = "READY" THEN Append(xact, "in_progress") ELSE xact

\* A statement the server rejects aborts the whole transaction: its rows
\* are dead from then on.
Aborted_keeps(c) == Begun(c)

Aborted(c) == [Begun(c) EXCEPT ![TxOf(c)] = "aborted"]

\* The statement ran: the connection is inside its transaction.
Ran(c) ==
    /\ xact' = Begun(c)
    /\ status' = [status EXCEPT ![c] = "INTRANS"]
    /\ xid' = [xid EXCEPT ![c] = TxOf(c)]

Failed_statement_only(c) == Ran(c)

\* The statement failed.  In a transaction that has already failed the
\* server only answers InFailedSqlTransaction; otherwise the transaction is
\* aborted and the connection refuses statements until rollback.
Failed(c) ==
    IF status[c] = "INERROR"
    THEN UNCHANGED << xact, status, xid >>
    ELSE /\ xact' = Aborted(c)
         /\ status' = [status EXCEPT ![c] = "INERROR"]
         /\ xid' = [xid EXCEPT ![c] = TxOf(c)]

ErrorOf(c) == IF status[c] = "INERROR" THEN "InFailedSqlTransaction" ELSE "Error"

InFlight(c) == { p \in Calls : pc[p] \notin {"idle", "done"} /\ conn[p] = c }

\* Connections are numbered in the order they are first used.
UsedConns == { conn[p] : p \in { q \in Calls : pc[q] # "idle" } }

\* ------------------------------------------------------------ the tables
Matching_all(name) == customers

Matching(name) == { r \in customers : r.name = name }

\* SELECT without ORDER BY: the matching rows come in any order.
Orderings(S) ==
    { f \in [1..Cardinality(S) -> S] : \A a, b \in DOMAIN f : a # b => f[a] # f[b] }

\* nextval of the serial behind invoices.id, n values drawn.
Nextval_restarts(n) == n

Nextval(n) == invoices_id_seq + n

NewInvoices_first(order, x) ==
    [ j \in (DOMAIN order \cap {1}) |->
        [id |-> Nextval(j), customer_id |-> order[j].id, xmin |-> x] ]

NewInvoices(order, x) ==
    [ j \in DOMAIN order |->
        [id |-> Nextval(j), customer_id |-> order[j].id, xmin |-> x] ]

\* RETURNING id AS invoice_id: one result row per inserted row.
ReturnedIds(order) == [ j \in DOMAIN order |-> Nextval(j) ]

\* items.invoice_id references invoices.id: the referenced row must be
\* visible to the inserting statement, that is committed or inserted by the
\* statement's own transaction x.
InvoiceExists(id, x) ==
    \E k \in DOMAIN invoices :
        /\ invoices[k].id = id
        /\ (Committed(invoices[k].xmin) \/ invoices[k].xmin = x)

\* ------------------------------------------------------------ record_sale
\* Leaving the with block by an exception: the cursor closes, the exception
\* reaches the caller.  Nothing is sent to the server.
Raise_swallowed(p, e) ==
    /\ pc' = [pc EXCEPT ![p] = "done"]
    /\ cur' = [cur EXCEPT ![p].closed = TRUE]
    /\ result' = [result EXCEPT ![p] = [kind |-> "returned", value |-> None]]

Raise(p, e) ==
    /\ pc' = [pc EXCEPT ![p] = "done"]
    /\ cur' = [cur EXCEPT ![p].closed = TRUE]
    /\ result' = [result EXCEPT ![p] = [kind |-> "raised", value |-> e]]

\* lines 12-14: the call and conn.cursor().  Calls are numbered in the
\* order they are made.
Call(p) ==
    /\ pc[p] = "idle"
    /\ \A q \in Calls : q < p => pc[q] # "idle"
    /\ \E c \in Conns, name \in CustomerNames, list \in ItemLists :
        /\ \A d \in Conns : d < c => d \in UsedConns
        /\ conn' = [conn EXCEPT ![p] = c]
        /\ customer' = [customer EXCEPT ![p] = name]
        /\ arg_items' = [arg_items EXCEPT ![p] = list]
    /\ cur' = [cur EXCEPT ![p] = [rows |-> << >>, closed |-> FALSE]]
    /\ pc' = [pc EXCEPT ![p] = "execute_invoice"]
    /\ UNCHANGED << store, session, invoice_id, n_done, sent, result >>

\* lines 17-21: INSERT INTO invoices (customer_id) SELECT id FROM customers
\* WHERE name = %s RETURNING id.
ExecuteInvoice(p) ==
    /\ pc[p] = "execute_invoice"
    /\ LET c == conn[p]
       IN  \E accepted \in (IF status[c] = "INERROR" THEN {FALSE} ELSE BOOLEAN) :
           /\ sent' = [sent EXCEPT ![p] = Append(@,
                  [stmt |-> "invoice", param |-> customer[p], ok |-> accepted])]
           /\ IF accepted
              THEN \E order \in Orderings(Matching(customer[p])) :
                   /\ invoices' = invoices \o NewInvoices(order, TxOf(c))
                   /\ invoices_id_seq' = Nextval(Len(order))
                   /\ Ran(c)
                   /\ cur' = [cur EXCEPT ![p].rows = ReturnedIds(order)]
                   /\ pc' = [pc EXCEPT ![p] = "fetchone"]
                   /\ UNCHANGED << items, result >>
              ELSE /\ Failed(c)
                   /\ Raise(p, ErrorOf(c))
                   /\ UNCHANGED << invoices, items, invoices_id_seq >>
    /\ UNCHANGED << args, invoice_id, n_done >>

\* line 23: invoice_id = cur.fetchone()[0].  fetchone() gives None when the
\* result set is empty, and None[0] raises TypeError.
FetchOne(p) ==
    /\ pc[p] = "fetchone"
    /\ IF cur[p].rows = << >>
       THEN /\ Raise(p, "TypeError")
            /\ UNCHANGED invoice_id
       ELSE /\ invoice_id' = [invoice_id EXCEPT ![p] = Head(cur[p].rows)]
            /\ cur' = [cur EXCEPT ![p].rows = Tail(@)]
            /\ pc' = [pc EXCEPT ![p] = "items"]
            /\ UNCHANGED result
    /\ UNCHANGED << store, session, args, n_done, sent >>

\* line 27: for item in items -- the item of the next turn of the loop.
NextItem_reversed(p) == arg_items[p][Len(arg_items[p]) - n_done[p]]

NextItem(p) == arg_items[p][n_done[p] + 1]

\* line 28 raising: the exception leaves the loop and the function.
ItemFailed_continue(p, e) ==
    /\ n_done' = [n_done EXCEPT ![p] = @ + 1]
    /\ UNCHANGED << pc, cur, result >>

ItemFailed(p, e) ==
    /\ Raise(p, e)
    /\ UNCHANGED n_done

\* lines 26-28: one turn of the loop, INSERT INTO items (name, invoice_id)
\* VALUES (%s, %s) for the next item.
ExecuteItem(p) ==
    /\ pc[p] = "items"
    /\ n_done[p] < Len(arg_items[p])
    /\ LET c == conn[p]
           refused == status[c] = "INERROR" \/ ~InvoiceExists(invoice_id[p], TxOf(c))
       IN  \E accepted \in (IF refused THEN {FALSE} ELSE BOOLEAN) :
           /\ sent' = [sent EXCEPT ![p] = Append(@,
                  [stmt |-> "item", param |-> NextItem(p), ok |-> accepted])]
           /\ IF accepted
              THEN /\ items' = Append(items,
                          [name |-> NextItem(p), invoice_id |-> invoice_id[p],
                           xmin |-> TxOf(c)])
                   /\ Ran(c)
                   /\ n_done' = [n_done EXCEPT ![p] = @ + 1]
                   /\ UNCHANGED << invoices, invoices_id_seq, pc, cur, result >>
              ELSE /\ Failed(c)
                   /\ ItemFailed(p, ErrorOf(c))
                   /\ UNCHANGED << invoices, items, invoices_id_seq >>
    /\ UNCHANGED << args, invoice_id >>

Return_commits(p) ==
    /\ pc[p] = "items"
    /\ n_done[p] = Len(arg_items[p])
    /\ pc' = [pc EXCEPT ![p] = "done"]
    /\ cur' = [cur EXCEPT ![p].closed = TRUE]
    /\ result' = [result EXCEPT ![p] = [kind |-> "returned", value |-> None]]
    /\ xact' = [xact EXCEPT ![xid[conn[p]]] =
                    IF status[conn[p]] = "INTRANS" THEN "committed" ELSE "aborted"]
    /\ status' = [status EXCEPT ![conn[p]] = "READY"]
    /\ xid' = [xid EXCEPT ![conn[p]] = 0]
    /\ UNCHANGED << invoices, items, invoices_id_seq, args, invoice_id, n_done, sent >>

\* line 29: the loop is over and the with block is left normally: the
\* cursor's __exit__ closes the cursor.  Nothing is sent to the server, and
\* the function, having no return statement, returns None.
Return(p) ==
    /\ pc[p] = "items"
    /\ n_done[p] = Len(arg_items[p])
    /\ pc' = [pc EXCEPT ![p] = "done"]
    /\ cur' = [cur EXCEPT ![p].closed = TRUE]
    /\ result' = [result EXCEPT ![p] = [kind |-> "returned", value |-> None]]
    /\ UNCHANGED << store, session, args, invoice_id, n_done, sent >>

\* ------------------------------------------------- the caller's connection
\* The module itself never calls them; these are the commit() and
\* rollback() of the connection object a caller holds, used between calls
\* on that connection.  COMMIT in a failed transaction is answered by
\* ROLLBACK.  On a READY connection both do nothing.
Commit(c) ==
    /\ InFlight(c) = {}
    /\ status[c] # "READY"
    /\ xact' = [xact EXCEPT ![xid[c]] =
                    IF status[c] = "INTRANS" THEN "committed" ELSE "aborted"]
    /\ status' = [status EXCEPT ![c] = "READY"]
    /\ xid' = [xid EXCEPT ![c] = 0]
    /\ UNCHANGED << invoices, items, invoices_id_seq, pc, args, cur,
                    invoice_id, n_done, sent, result >>

Rollback(c) ==
    /\ InFlight(c) = {}
    /\ status[c] # "READY"
    /\ xact' = [xact EXCEPT ![xid[c]] = "aborted"]
    /\ status' = [status EXCEPT ![c] = "READY"]
    /\ xid' = [xid EXCEPT ![c] = 0]
    /\ UNCHANGED << invoices, items, invoices_id_seq, pc, args, cur,
                    invoice_id, n_done, sent, result >>

\* --------------------------------------------------------- specification
Init ==
    /\ invoices = << >>
    /\ items = << >>
    /\ invoices_id_seq = 0
    /\ xact = << >>
    /\ status = [c \in Conns |-> "READY"]
    /\ xid = [c \in Conns |-> 0]
    /\ pc = [p \in Calls |-> "idle"]
    /\ conn = [p \in Calls |-> 1]
    /\ customer = [p \in Calls |-> "Mary"]
    /\ arg_items = [p \in Calls |-> << >>]
    /\ cur = [p \in Calls |-> [rows |-> << >>, closed |-> TRUE]]
    /\ invoice_id = [p \in Calls |-> 0]
    /\ n_done = [p \in Calls |-> 0]
    /\ sent = [p \in Calls |-> << >>]
    /\ result = [p \in Calls |-> [kind |-> "none", value |-> None]]

Next ==
    \/ \E p \in Calls : Call(p)
    \/ \E p \in Calls : ExecuteInvoice(p)
    \/ \E p \in Calls : FetchOne(p)
    \/ \E p \in Calls : ExecuteItem(p)
    \/ \E p \in Calls : Return(p)
    \/ \E c \in Conns : Commit(c)
    \/ \E c \in Conns : Rollback(c)

Spec == Init /\ [][Next]_vars

TypeOK ==
    /\ invoices_id_seq \in Nat
    /\ \A c \in Conns : status[c] \in {"READY", "INTRANS", "INERROR"}
    /\ \A p \in Calls : pc[p] \in {"idle", "execute_invoice", "fetchone", "items", "done"}

\* ================================================================ claims
Returned(p) == pc[p] = "done" /\ result[p].kind = "returned"
Raised(p) == pc[p] = "done" /\ result[p].kind = "raised"

Range(f) == { f[k] : k \in DOMAIN f }

\* The ids the invoice statement of call p returned: the one fetched on
\* line 23 and those left unread in the cursor.
IdsOf(p) == (IF invoice_id[p] = 0 THEN {} ELSE {invoice_id[p]}) \cup Range(cur[p].rows)

\* The rows of the two tables that call p inserted, in heap order, whatever
\* the fate of their transaction.
InvoiceRows(p) == SelectSeq(invoices, LAMBDA r : r.id \in IdsOf(p))
ItemRows(p) ==
    SelectSeq(items, LAMBDA r : invoice_id[p] # 0 /\ r.invoice_id = invoice_id[p])

NamesOf(rows) == [ k \in DOMAIN rows |-> rows[k].name ]

Durable(rows) == SelectSeq(rows, LAMBDA r : Committed(r.xmin))
Dead(rows) == \A k \in DOMAIN rows : xact[rows[k].xmin] = "aborted"

OneMatch(p) == Cardinality(Matching(customer[p])) = 1

\* One invoice, for a matching customer, and the items in the caller's
\* order, all referencing it; the item statements went out in that order.
SaleRecorded(p) ==
    /\ Len(InvoiceRows(p)) = 1
    /\ InvoiceRows(p)[1].id = invoice_id[p]
    /\ InvoiceRows(p)[1].customer_id \in { r.id : r \in Matching(customer[p]) }
    /\ NamesOf(ItemRows(p)) = arg_items[p]
    /\ Len(sent[p]) = 1 + Len(arg_items[p])
    /\ \A k \in DOMAIN arg_items[p] :
          sent[p][k + 1] = [stmt |-> "item", param |-> arg_items[p][k], ok |-> TRUE]

\* C1 as stated: for every customer identifier that matches an existing
\* Customer and every sequence of item names, a successful record_sale has
\* created exactly one Invoice and len(items) Items, all referencing that
\* Invoice, inserted in the caller's order.
C1_OneInvoicePerMatchingName ==
    \A p \in Calls : Returned(p) /\ Matching(customer[p]) # {} => SaleRecorded(p)

\* C1 as amended: for every customer identifier that matches exactly one
\* Customer and every sequence of item names, a successful record_sale has
\* created exactly one Invoice and len(items) Items, all referencing that
\* Invoice, inserted in the caller's order.
C1_OneInvoicePerUniqueName ==
    \A p \in Calls : Returned(p) /\ OneMatch(p) => SaleRecorded(p)

C1_Witness ==
    \E p \in Calls :
        /\ Returned(p)
        /\ OneMatch(p)
        /\ Len(arg_items[p]) = 2
        /\ arg_items[p][1] # arg_items[p][2]

\* C2: once record_sale has returned without error, the new Invoice and all
\* its Items are committed in the store.
C2_DurableOnReturn ==
    \A p \in Calls :
        Returned(p) =>
            /\ InvoiceRows(p) # << >>
            /\ Durable(InvoiceRows(p)) = InvoiceRows(p)
            /\ Durable(ItemRows(p)) = ItemRows(p)

ItemInsertFailed(p) ==
    /\ Raised(p)
    /\ sent[p] # << >>
    /\ sent[p][Len(sent[p])].stmt = "item"
    /\ ~sent[p][Len(sent[p])].ok

\* C3: when the insert of the N-th item fails, the invoice and the N-1 items
\* the call had inserted are rolled back: in every later state their
\* transaction is aborted, so none of them is ever durable.
C3_FullRollback ==
    \A p \in Calls :
        ItemInsertFailed(p) =>
            /\ Dead(InvoiceRows(p))
            /\ Dead(ItemRows(p))
            /\ Durable(InvoiceRows(p)) = << >>
            /\ Durable(ItemRows(p)) = << >>

C3_Witness ==
    \E p \in Calls :
        /\ ItemInsertFailed(p)
        /\ n_done[p] = 1
        /\ Len(ItemRows(p)) = 1
        /\ Len(InvoiceRows(p)) >= 1
        /\ status[conn[p]] = "READY"

\* C4: for a customer identifier that matches no Customer, record_sale fails
\* with NotFoundError("customer"), inserts no Invoice and no Item, and the
\* transaction is rolled back.
C4_NotFoundRollsBack ==
    [][ \A p \in Calls :
          (pc[p] = "fetchone" /\ Matching(customer[p]) = {} /\ pc'[p] = "done") =>
              /\ result'[p] = [kind |-> "raised", value |-> "NotFoundError"]
              /\ invoices' = invoices
              /\ items' = items
              /\ status'[conn[p]] = "READY" ]_vars

\* C5: a successful record_sale returns the id of the Invoice it inserted.
C5_ReturnsInvoiceId ==
    \A p \in Calls :
        Returned(p) => result[p].value # None /\ result[p].value = invoice_id[p]

\* C6: in every reachable state the committed rows of a call are either none
\* of its rows or its Invoice and all its len(items) Items; while the call
\* runs, before any commit, none of its rows is visible to other sessions.
C6_AllOrNothingVisible ==
    \A p \in Calls :
        /\ pc[p] # "done" =>
              Durable(InvoiceRows(p)) = << >> /\ Durable(ItemRows(p)) = << >>
        /\ \/ Durable(InvoiceRows(p)) = << >> /\ Durable(ItemRows(p)) = << >>
           \/ /\ Durable(InvoiceRows(p)) = InvoiceRows(p)
              /\ NamesOf(Durable(ItemRows(p))) = arg_items[p]

C6_Witness ==
    \E p, q \in Calls :
        /\ Returned(p)
        /\ Len(arg_items[p]) = 2
        /\ Durable(InvoiceRows(p)) # << >>
        /\ ItemInsertFailed(q)
        /\ conn[q] = conn[p]
        /\ n_done[q] = 1
        /\ status[conn[q]] = "READY"

\* C7: when record_sale returns or raises, the transaction it ran in has
\* been committed or rolled back: none is left open on its connection.
C7_NoTransactionLeftOpen ==
    [][ \A p \in Calls :
          (pc[p] # "done" /\ pc'[p] = "done") => status'[conn[p]] = "READY" ]_vars

\* C8: two successful calls with identical arguments have two distinct
\* Invoices with different ids, each with its own len(items) Items.
C8_NotIdempotent ==
    \A p, q \in Calls :
        ( /\ p # q
          /\ Returned(p)
          /\ Returned(q)
          /\ customer[p] = customer[q]
          /\ arg_items[p] = arg_items[q] ) =>
            /\ invoice_id[p] # invoice_id[q]
            /\ IdsOf(p) \cap IdsOf(q) = {}
            /\ \E k \in DOMAIN invoices : invoices[k].id = invoice_id[p]
            /\ \E k \in DOMAIN invoices : invoices[k].id = invoice_id[q]
            /\ NamesOf(ItemRows(p)) = arg_items[p]
            /\ NamesOf(ItemRows(q)) = arg_items[q]

C8_Witness ==
    \E p, q \in Calls :
        /\ p # q
        /\ Returned(p)
        /\ Returned(q)
        /\ conn[p] = conn[q]
        /\ customer[p] = customer[q]
        /\ arg_items[p] = arg_items[q]
        /\ Len(arg_items[p]) = 2

AllReturned == \A p \in Calls : Returned(p)

Disjoint(p, q) ==
    /\ customer[p] # customer[q]
    /\ Range(arg_items[p]) \cap Range(arg_items[q]) = {}

\* C9: after concurrent calls for different customers with disjoint item
\* sets have all completed, the stored rows are exactly the rows expected
\* from each call, and no Item references the Invoice of another call.
C9_UnionStored ==
    ( /\ AllReturned
      /\ \A p \in Calls : OneMatch(p)
      /\ \A p, q \in Calls : p # q => Disjoint(p, q) ) =>
        /\ \A p \in Calls :
              /\ Len(Durable(InvoiceRows(p))) = 1
              /\ NamesOf(Durable(ItemRows(p))) = arg_items[p]
        /\ \A k \in DOMAIN items :
              \E p \in Calls :
                  /\ items[k].invoice_id = invoice_id[p]
                  /\ items[k].name \in Range(arg_items[p])

\* The part of C9 that does not depend on a commit: whatever the
\* interleaving, every item row references the invoice of the call that
\* passed its name, and no two calls hold the same invoice id.
C9_NoCrossContamination ==
    /\ \A p, q \in Calls :
          p # q /\ invoice_id[p] # 0 => invoice_id[p] # invoice_id[q]
    /\ \A p, q \in Calls :
          (p # q /\ pc[p] # "idle" /\ pc[q] # "idle" /\ Disjoint(p, q)) =>
              \A k \in DOMAIN items :
                  items[k].invoice_id = invoice_id[p] =>
                      items[k].name \in Range(arg_items[p])

\* C10: when the insert of an item fails, record_sale stops there: the
\* failed statement is the last one the call sends, and the call has raised.
C10_AbortsAtFirstFailure ==
    \A p \in Calls :
        \A k \in DOMAIN sent[p] :
            (sent[p][k].stmt = "item" /\ ~sent[p][k].ok) =>
                /\ k = Len(sent[p])
                /\ Raised(p)
                /\ Len(ItemRows(p)) = k - 2

C10_Witness ==
    \E p \in Calls :
        /\ Raised(p)
        /\ Len(arg_items[p]) = 2
        /\ Len(sent[p]) = 2
        /\ sent[p][2].stmt = "item"
        /\ ~sent[p][2].ok

StatementFailed(p) == \E k \in DOMAIN sent[p] : ~sent[p][k].ok

\* C11: every error a statement of record_sale raises (on the invoice insert
\* or on an item insert) ends the call with that error at the caller and
\* with the transaction aborted: a call that returned normally had no
\* failed statement, and a call with a failed statement has raised, its rows
\* dead.
C11_ErrorsPropagate ==
    \A p \in Calls :
        /\ StatementFailed(p) =>
              /\ Raised(p)
              /\ result[p].value \in {"Error", "InFailedSqlTransaction"}
              /\ ~sent[p][Len(sent[p])].ok
              /\ Dead(InvoiceRows(p))
              /\ Dead(ItemRows(p))
        /\ Returned(p) => \A k \in DOMAIN sent[p] : sent[p][k].ok

C11_Witness ==
    \E p, q \in Calls :
        /\ Raised(p)
        /\ sent[p] = << [stmt |-> "invoice", param |-> customer[p], ok |-> FALSE] >>
        /\ result[p].value = "Error"
        /\ Raised(q)
        /\ Len(sent[q]) = 3
        /\ ~sent[q][3].ok

\* C12: in every reachable state, inside open transactions too, every Item
\* row references an Invoice row that exists for it (inserted by the same
\* transaction, or committed), every Invoice row's customer id is the id of
\* a Customer, and a call whose name matches no Customer has sent no item
\* insert and has no Item row.
C12_ReferentialIntegrity ==
    /\ \A k \in DOMAIN items :
          \E j \in DOMAIN invoices :
              /\ invoices[j].id = items[k].invoice_id
              /\ invoices[j].xmin = items[k].xmin \/ Committed(invoices[j].xmin)
    /\ \A j \in DOMAIN invoices :
          invoices[j].customer_id \in { r.id : r \in customers }
    /\ \A p \in Calls :
          (pc[p] # "idle" /\ \A r \in customers : r.name # customer[p]) =>
              /\ \A k \in DOMAIN sent[p] : sent[p][k].stmt # "item"
              /\ \A k \in DOMAIN items : items[k].invoice_id \notin IdsOf(p)
              /\ invoice_id[p] = 0

C12_Witness ==
    /\ \E p \in Calls :
          /\ Raised(p)
          /\ customer[p] = "Zed"
          /\ result[p].value = "TypeError"
          /\ Len(arg_items[p]) = 2
    /\ \E q \in Calls :
          /\ pc[q] = "items"
          /\ Len(ItemRows(q)) = 2
          /\ xact[ItemRows(q)[1].xmin] = "in_progress"

Sending(p) == pc[p] \notin {"idle", "done"} /\ sent[p] # << >>

\* C13: no two concurrent record_sale invocations send statements on the
\* same connection's transaction: two calls that are both under way, each
\* having sent a statement, are on different connections.
C13_ExclusiveConnection ==
    \A p, q \in Calls :
        (p # q /\ Sending(p) /\ Sending(q)) => conn[p] # conn[q]

\* A step of some record_sale call (every one changes pc or sent); the
\* caller's commit() and rollback() change neither.
RecordSaleStep == pc' # pc \/ sent' # sent

Inserted(p) == pc[p] \in {"fetchone", "items", "done"} /\ sent[p][1].ok

\* C15: when the customer name matches k Customer rows, the one INSERT ...
\* SELECT inserts k Invoice rows, one per matching Customer; every Item of
\* the call references the one Invoice id read by fetchone, and the other
\* k-1 Invoices have no Item.
C15_OneInvoicePerMatchingRow ==
    \A p \in Calls :
        Inserted(p) =>
            /\ Len(InvoiceRows(p)) = Cardinality(Matching(customer[p]))
            /\ { InvoiceRows(p)[k].customer_id : k \in DOMAIN InvoiceRows(p) }
                   = { r.id : r \in Matching(customer[p]) }
            /\ \A k \in DOMAIN items :
                  items[k].invoice_id \in IdsOf(p) =>
                      /\ invoice_id[p] # 0
                      /\ items[k].invoice_id = invoice_id[p]
            /\ Returned(p) => Len(ItemRows(p)) = Len(arg_items[p])

C15_Witness ==
    \E p \in Calls :
        /\ Returned(p)
        /\ Cardinality(Matching(customer[p])) = 2
        /\ Len(InvoiceRows(p)) = 2
        /\ Len(ItemRows(p)) = 2
        /\ InvoiceRows(p)[2].id = invoice_id[p] + 1

\* No row of call p belongs to a transaction still in progress.
Settled(p) ==
    /\ \A k \in DOMAIN InvoiceRows(p) : xact[InvoiceRows(p)[k].xmin] # "in_progress"
    /\ \A k \in DOMAIN ItemRows(p) : xact[ItemRows(p)[k].xmin] # "in_progress"

Uncommitted(p) ==
    /\ \A k \in DOMAIN InvoiceRows(p) : ~Committed(InvoiceRows(p)[k].xmin)
    /\ \A k \in DOMAIN ItemRows(p) : ~Committed(ItemRows(p)[k].xmin)

FailingStep(q) == sent'[q] # sent[q] /\ ~sent'[q][Len(sent'[q])].ok

====
